---- MODULE Spec2Model ----
(***************************************************************************)
(* Model of src/bot.py: a Telegram group-chat bot.  Each incoming update   *)
(* is handled by on_text, a coroutine of a single-threaded event loop.     *)
(* A handler runs without interruption between its suspension points (the  *)
(* awaits of the completion call, of the backoff sleep and of the reply    *)
(* send); an action of this model is one such uninterrupted segment.       *)
(*                                                                         *)
(* Python strings are sequences of characters; a character is a one-letter *)
(* string, and "<ellipsis>", "<emdash>", "<rsquo>" stand for the three     *)
(* non-ASCII characters of the source.  Times of the event loop's clock    *)
(* are whole seconds; sleep durations are milliseconds.                    *)
(*                                                                         *)
(* Four specifications share the actions: Spec (every kind of update, two  *)
(* handlers at a time, the clock), SpecGen (one call of hf_generate        *)
(* against every endpoint outcome), SpecHist (one chat with more messages  *)
(* than its context keeps) and SpecPrompt (build_prompt on every text of a *)
(* bounded set).                                                           *)
(***************************************************************************)
EXTENDS Integers, Sequences, FiniteSets, TLC

----------------------------------------------------------------------------
(* Bounds of the model *)

\* number of updates delivered to the bot
MaxUpdates == 3
\* the clock is observed for this many seconds after its first reading
MaxElapsed == 240
\* length of the over-long response body the endpoint may send, beyond 3500
LongExtra == 2

\* updates received in a run of the busy chat
MaxHistory == 5

\* pieces a text addressed to the bot is put together from
MaxPieces == 3

----------------------------------------------------------------------------
(* Program constants *)

\* range(3)
ATTEMPTS == 3
\* roast_allowed: now - last < 120
COOLDOWN == 120
\* deque(maxlen=3)
HISTORY_MAXLEN == 3
\* text[:120]
ENTRY_MAXLEN == 120
\* cleaned[:800]
PROMPT_MAXLEN == 800
\* txt[:3500], len(reply) > 3500, reply[:3500]
REPLY_MAXLEN == 3500
\* random.randint(1, 50)
DRAW_MAX == 50
\* asyncio.sleep(1.2 + attempt * 0.8), in milliseconds
BACKOFF_BASE_MS == 1200
BACKOFF_STEP_MS == 800

----------------------------------------------------------------------------
(* Strings *)

WS == {" ", "\t", "\n", "\r"}

\* s[:n]
Take(s, n) == SubSeq(s, 1, IF Len(s) < n THEN Len(s) ELSE n)

\* s[n:]
Drop(s, n) == SubSeq(s, n + 1, Len(s))

\* the first, and the last, index of s that holds a character of set C
\* (one exists)
FirstIn(s, C) == CHOOSE i \in 1..Len(s) : s[i] \in C /\ \A j \in 1..(i - 1) : s[j] \notin C
LastIn(s, C) ==
    LET n == Len(s)
        k == CHOOSE k \in 1..n : s[n + 1 - k] \in C /\ \A j \in 1..(k - 1) : s[n + 1 - j] \notin C
    IN  n + 1 - k

\* str.strip()
Strip(s) ==
    LET NonWS == {s[i] : i \in 1..Len(s)} \ WS
    IN  IF NonWS = {} THEN <<>> ELSE SubSeq(s, FirstIn(s, NonWS), LastIn(s, NonWS))

UpperCase == <<"A","B","C","D","E","F","G","H","I","J","K","L","M",
               "N","O","P","Q","R","S","T","U","V","W","X","Y","Z">>
LowerCase == <<"a","b","c","d","e","f","g","h","i","j","k","l","m",
               "n","o","p","q","r","s","t","u","v","w","x","y","z">>

LowerChar(c) ==
    IF \E k \in 1..26 : UpperCase[k] = c
    THEN LowerCase[CHOOSE k \in 1..26 : UpperCase[k] = c]
    ELSE c

\* str.lower()
Lower(s) == [i \in 1..Len(s) |-> LowerChar(s[i])]

\* p in s
Contains(s, p) ==
    \E i \in 0..(Len(s) - Len(p)) : SubSeq(s, i + 1, i + Len(p)) = p

\* s.startswith(p)
StartsWith(s, p) == Len(s) >= Len(p) /\ SubSeq(s, 1, Len(p)) = p

DigitChar == <<"0","1","2","3","4","5","6","7","8","9">>

\* str(n) of a non-negative integer, as in an f-string
RECURSIVE Str(_)
Str(n) ==
    IF n < 10 THEN <<DigitChar[n + 1]>>
    ELSE Str(n \div 10) \o <<DigitChar[(n % 10) + 1]>>

\* re.sub(r"\s+", " ", s.strip())
normalize_text(s) ==
    LET t       == Strip(s)
        Kept(i) == t[i] \notin WS \/ t[i - 1] \notin WS
        kept    == SelectSeq([i \in 1..Len(t) |-> i], Kept)
    IN  [k \in 1..Len(kept) |-> IF t[kept[k]] \in WS THEN " " ELSE t[kept[k]]]

\* s.rsplit(" ", 1)[0]
RSplitHead(s) ==
    IF \A i \in 1..Len(s) : s[i] # " " THEN s
    ELSE SubSeq(s, 1, LastIn(s, {" "}) - 1)

TimeoutFallback ==
    <<"S","o","r","r","y"," ","l","o","v","e","<emdash>","m","y"," ","b",
      "r","a","i","n"," ","f","r","o","z","e"," ","f","o","r"," ","a"," ",
      "s","e","c","o","n","d","."," ","T","r","y"," ","a","g","a","i","n",
      "?">>

ErrorFallback ==
    <<"O","o","p","s"," ","l","o","v","e","<ellipsis>"," ","s","o","m","e",
      "t","h","i","n","g"," ","b","r","o","k","e"," ","o","n"," ","m","y",
      " ","s","i","d","e","."," ","T","r","y"," ","a","g","a","i","n"," ",
      "i","n"," ","a"," ","m","o","m","e","n","t","?">>

BusyFallback ==
    <<"I","<rsquo>","m"," ","a"," ","b","i","t"," ","b","u","s","y"," ","r",
      "i","g","h","t"," ","n","o","w",","," ","m","y"," ","d","e","a","r",
      "<emdash>","t","r","y"," ","a","g","a","i","n"," ","s","h","o","r",
      "t","l","y",".">>

ClarifyingPrompt ==
    <<"W","h","a","t"," ","l","o","v","e","?"," ","A","s","k"," ","m","e",
      " ","a","g","a","i","n",","," ","p","l","e","a","s","e",".">>

\* mutant of Diagnostic: the body is embedded whole
Diagnostic_NoTruncate(status, txt) ==
    <<"(","L","L","M"," ","e","r","r","o","r"," ">> \o Str(status)
        \o <<")"," ">> \o txt \o <<"<ellipsis>">>

\* f"(LLM error {r.status}) {txt[:3500]}..."
Diagnostic(status, txt) ==
    <<"(","L","L","M"," ","e","r","r","o","r"," ">> \o Str(status)
        \o <<")"," ">> \o Take(txt, REPLY_MAXLEN) \o <<"<ellipsis>">>

----------------------------------------------------------------------------
(* The completion endpoint, as hf_generate observes it *)

\* One POST of hf_generate ends in one of these ways: the POST itself
\* raises asyncio.TimeoutError ("timeout") or another Exception ("error"),
\* or a response with a status arrives.  Reading the body of a response
\* (r.json() and the indexing of its result, or r.text()) either yields a
\* string ("ok"), raises asyncio.TimeoutError ("timeout"), raises another
\* Exception ("error"), or, for r.json(), yields data without the
\* choices[0].message.content structure ("malformed", a KeyError,
\* IndexError or TypeError).  The body of a 429 or 503 is never read.
PostTimeout == [post |-> "timeout", status |-> 0, read |-> "none", body |-> <<>>]
PostError   == [post |-> "error", status |-> 0, read |-> "none", body |-> <<>>]
Response(st, rd, b) == [post |-> "response", status |-> st, read |-> rd, body |-> b]

\* a response body of more than 3500 characters, with spaces in it
LongBody ==
    [i \in 1..(REPLY_MAXLEN + LongExtra) |-> IF i % 7 = 0 THEN " " ELSE "x"]

\* a text of more than 3500 characters without a space, and one of exactly
\* 3500 characters
LongWord == [i \in 1..(REPLY_MAXLEN + LongExtra) |-> "x"]
FullWord == [i \in 1..REPLY_MAXLEN |-> "x"]

Contents == { <<>>, <<" ">>, <<"o","k">>, <<" ","h","i","\n">>,
              LongBody, LongWord, FullWord }
Bodies   == { <<>>, <<"n","o"," ","q","u","o","t","a">>, LongBody }
BusyStatuses  == {429, 503}
OtherStatuses == {401, 500}

\* every outcome of one POST, for a single call of hf_generate
GenOutcomes ==
    {PostTimeout, PostError}
        \cup {Response(200, "ok", c) : c \in Contents}
        \cup {Response(200, rd, <<>>) : rd \in {"malformed", "timeout", "error"}}
        \cup {Response(st, "none", <<>>) : st \in BusyStatuses}
        \cup {Response(st, "ok", b) : st \in OtherStatuses, b \in Bodies}
        \cup {Response(st, rd, <<>>) : st \in OtherStatuses, rd \in {"timeout", "error"}}

\* a success and a retried failure, for the calls of concurrently running
\* handlers: these reach every suspension point of hf_generate
SysOutcomes ==
    {Response(200, "ok", <<" ","h","i","\n">>), Response(503, "none", <<>>)}

----------------------------------------------------------------------------
(* hf_generate: one iteration of "for attempt in range(3)" *)

Return(s) == [kind |-> "return", value |-> s, delay |-> 0]
Retry     == [kind |-> "retry", value |-> <<>>, delay |-> 0]
Sleep(ms) == [kind |-> "sleep", value |-> <<>>, delay |-> ms]

\* mutant of OnTimeout: the fallback is returned one attempt early
OnTimeout_OffByOne(i) == IF i = 1 THEN Return(TimeoutFallback) ELSE Retry

\* except asyncio.TimeoutError: if attempt == 2: return ...
OnTimeout(i) == IF i = 2 THEN Return(TimeoutFallback) ELSE Retry

\* mutant of OnException: before the last attempt the exception is raised
\* again instead of swallowed
OnException_Reraise(i) ==
    IF i = 2 THEN Return(ErrorFallback)
    ELSE [kind |-> "raise", value |-> <<>>, delay |-> 0]

\* mutant of OnException: the handler of the timeout is used
OnException_AsTimeout(i) == OnTimeout(i)

\* except Exception: if attempt == 2: return ...
OnException(i) == IF i = 2 THEN Return(ErrorFallback) ELSE Retry

\* mutant of Backoff: the attempt is counted from 1
Backoff_OneBased(i) == BACKOFF_BASE_MS + (i + 1) * BACKOFF_STEP_MS

\* 1.2 + attempt * 0.8 seconds
Backoff(i) == BACKOFF_BASE_MS + i * BACKOFF_STEP_MS

\* mutant of OnResponse: the content of a 200 is returned untrimmed
OnResponse_NoStrip(i, o) ==
    IF o.status = 200
    THEN CASE o.read = "ok"      -> Return(o.body)
           [] o.read = "timeout" -> OnTimeout(i)
           [] OTHER              -> OnException(i)
    ELSE IF o.status \in {429, 503}
    THEN Sleep(Backoff(i))
    ELSE CASE o.read = "ok"      -> Return(Diagnostic(o.status, o.body))
           [] o.read = "timeout" -> OnTimeout(i)
           [] OTHER              -> OnException(i)

\* the try block, once the response has arrived
OnResponse(i, o) ==
    IF o.status = 200
    THEN CASE o.read = "ok"      -> Return(Strip(o.body))
           [] o.read = "timeout" -> OnTimeout(i)
           [] OTHER              -> OnException(i)
    ELSE IF o.status \in {429, 503}
    THEN Sleep(Backoff(i))
    ELSE CASE o.read = "ok"      -> Return(Diagnostic(o.status, o.body))
           [] o.read = "timeout" -> OnTimeout(i)
           [] OTHER              -> OnException(i)

\* mutant of Iteration: no backoff after a 429 or 503 on the last attempt
Iteration_NoLastSleep(i, o) ==
    CASE o.post = "timeout" -> OnTimeout(i)
      [] o.post = "error"   -> OnException(i)
      [] o.post = "response" /\ o.status \in {429, 503} /\ i = ATTEMPTS - 1 -> Retry
      [] OTHER              -> OnResponse(i, o)

\* the body of the loop at attempt index i, given what the POST does
Iteration(i, o) ==
    CASE o.post = "timeout" -> OnTimeout(i)
      [] o.post = "error"   -> OnException(i)
      [] OTHER              -> OnResponse(i, o)

----------------------------------------------------------------------------
(* on_text: reply post-processing *)

\* reply = (reply or "").strip(); the two ifs that follow
\* mutant of PostProcess: the cut text keeps the word the cut went through
PostProcess_KeepsBrokenWord(r) ==
    LET s == Strip(r)
        t == IF s = <<>> THEN ClarifyingPrompt ELSE s
    IN  IF Len(t) > REPLY_MAXLEN
        THEN Take(t, REPLY_MAXLEN) \o <<"<ellipsis>">>
        ELSE t

PostProcess(r) ==
    LET s == Strip(r)
        t == IF s = <<>> THEN ClarifyingPrompt ELSE s
    IN  IF Len(t) > REPLY_MAXLEN
        THEN RSplitHead(Take(t, REPLY_MAXLEN)) \o <<"<ellipsis>">>
        ELSE t

----------------------------------------------------------------------------
(* Incoming updates *)

\* context.bot.username or ""
bot_username == <<"B","o","t">>

\* no reply_to_message, or one without a from_user
NoReply == <<"<none>">>

\* An update: whether it carries a message, and the message's chat, chat
\* type, text, sender first name (<<>> when absent) and the username of the
\* sender of the message it replies to.
Update(m, c, ty, tx, fn, rt) ==
    [message |-> m, chat_id |-> c, chat_type |-> ty, text |-> tx,
     first_name |-> fn, reply_to |-> rt]

Al == <<"A","l">>

Updates ==
    { Update(FALSE, 0, "none", <<>>, <<>>, NoReply),
      Update(TRUE, 1, "group", <<>>, Al, NoReply),
      Update(TRUE, 1, "group", <<"h","i">>, Al, NoReply),
      Update(TRUE, 1, "supergroup", <<" ","y","o"," "," ","@","b","O","t">>, <<>>, NoReply),
      Update(TRUE, 1, "group", <<"/","g","o","@","B","o","t">>, Al, NoReply),
      Update(TRUE, 2, "group", <<"o","h">>, Al, bot_username),
      Update(TRUE, 2, "supergroup", <<"o","h">>, Al, Al),
      Update(TRUE, 3, "private", <<"@","B","o","t">>, Al, bot_username) }

\* the messages of one busy group chat: an ambient one, one that mentions
\* the bot, and one with a leading "/" that is not a bot command
HistUpdates ==
    { Update(TRUE, 1, "group", <<"h","i">>, Al, NoReply),
      Update(TRUE, 1, "supergroup", <<" ","y","o"," "," ","@","b","O","t">>, <<>>, NoReply),
      Update(TRUE, 1, "group", <<"/"," ","x">>, Al, NoReply),
      Update(TRUE, 1, "group", <<"/"," ","@","B","o","t">>, Al, NoReply) }

\* Texts of messages that reply to the bot: every concatenation of at most
\* MaxPieces pieces of the mention, and one of more than 800 characters.
Pieces ==
    { <<"@">>, <<"@","b">>, <<"@","B","o","t">>, <<"o","t">>, <<" ">>, <<"h","i">> }

RECURSIVE PieceTexts(_)
PieceTexts(k) ==
    IF k = 0 THEN {<<>>}
    ELSE LET shorter == PieceTexts(k - 1)
         IN  shorter \cup {s \o p : s \in shorter, p \in Pieces}

LongText ==
    <<"@","b","o","t">> \o [i \in 1..(PROMPT_MAXLEN + LongExtra) |-> "y"]

PromptUpdates ==
    { Update(TRUE, 1, "group", tx, Al, bot_username) :
        tx \in PieceTexts(MaxPieces) \cup {LongText} }

\* the update of the single handler whose completion call is examined
GenUpdate == Update(TRUE, 1, "group", <<"@","B","o","t"," ","h","i">>, Al, NoReply)

\* load_texts(ROAST_FILE): non-empty, stripped lines
ROAST_LINES == << <<"m","e","h">>, <<"o","h"," ","n","o">> >>

\* advances of the event loop's clock between two steps, in seconds
TickSteps == {119, 120}

\* on_text tasks that may be in progress at the same time
Tasks == {1, 2}

----------------------------------------------------------------------------
(* State *)

VARIABLES
    now,            \* asyncio.get_event_loop().time(), seconds
    CHAT_HISTORY,   \* chat_id -> deque of entries, keys created on access
    LAST_ROAST_AT,  \* chat_id -> time of the last roast, keys created on roast
    task,           \* the frame of each on_text task in progress (see IdleFrame)
    delivered,      \* number of updates handed to on_text so far
    roastLog,       \* history: <<chat_id, time>> of every call of roast_allowed
                    \* that returned True
    lastCheck,      \* history: the call of roast_allowed made by the latest
                    \* step, if any: its chat, the clock, LAST_ROAST_AT before
                    \* the call and the value returned
    handled,        \* history: chat_id -> the group messages on_text has got
                    \* past its chat-type check, in handling order
    lastBegin       \* history: the update received by the latest step, if
                    \* any (see Observed)

vars == <<now, CHAT_HISTORY, LAST_ROAST_AT, task, delivered, roastLog, lastCheck,
          handled, lastBegin>>

\* A frame.  pc: "idle" (no update being handled), "post" (suspended in
\* session.post of hf_generate), "sleep" (suspended in asyncio.sleep),
\* "reply" (suspended in reply_text), "crashed" (an exception left
\* hf_generate).  A frame is idle again when on_text returns.  Optional
\* values are sequences of length 0 or 1.  posts and sleeps are the history
\* of the POSTs issued and of the arguments of asyncio.sleep in this task's
\* call of hf_generate.
IdleFrame ==
    [pc |-> "idle", update |-> <<>>, prompt |-> <<>>, attempt |-> 0,
     posts |-> <<>>, sleeps |-> <<>>, result |-> <<>>, reply |-> <<>>]

Init ==
    /\ now = 0
    /\ CHAT_HISTORY = <<>>
    /\ LAST_ROAST_AT = <<>>
    /\ task = [t \in Tasks |-> IdleFrame]
    /\ delivered = 0
    /\ roastLog = <<>>
    /\ lastCheck = <<>>
    /\ handled = <<>>
    /\ lastBegin = <<>>

----------------------------------------------------------------------------
(* Helpers of on_text *)

\* d[k], of a dict d, or dflt
Get(d, k, dflt) == IF k \in DOMAIN d THEN d[k] ELSE dflt

\* d[k] = v
Put(d, k, v) == [x \in DOMAIN d \cup {k} |-> IF x = k THEN v ELSE d[x]]

\* filters.TEXT: the message has a non-empty text
filters_TEXT(u) == u.text # <<>>

\* filters.COMMAND: the text starts with a bot command, "/" followed by a
\* letter, a digit or an underscore
filters_COMMAND(u) ==
    /\ Len(u.text) >= 2
    /\ u.text[1] = "/"
    /\ \E i \in 1..Len(LowerCase) :
         u.text[2] \in {LowerCase[i], UpperCase[i], "_"} \cup {DigitChar[d] : d \in 1..10}

\* MessageHandler(filters.TEXT & ~filters.COMMAND, on_text): whether on_text
\* is invoked for u.  An update without a message (an edited message, a
\* channel post) is matched on its effective message, which may pass.
Dispatched(u) == ~u.message \/ (filters_TEXT(u) /\ ~filters_COMMAND(u))

\* mutant of is_group: every chat is taken for a group
is_group_AnyChat(u) == u.message

is_group(u) == u.message /\ u.chat_type \in {"group", "supergroup"}

should_answer_with_llm(u, name) ==
    IF ~u.message \/ u.text = <<>> THEN FALSE
    ELSE IF name # <<>> /\ Contains(Lower(u.text), Lower(<<"@">> \o name)) THEN TRUE
    ELSE u.reply_to # NoReply /\ u.reply_to = name

roast_candidate_name(u) ==
    IF u.message /\ u.first_name # <<>> THEN u.first_name
    ELSE <<"l","o","v","e">>

\* random.randint(1, 50) == 1, for the drawn number d
roast_probability(d) == d = 1

\* mutant of roast_allowed: the time is recorded before the comparison
roast_allowed_RecordsFirst(chat_id, t) ==
    LET last == Get(LAST_ROAST_AT, chat_id, 0)
    IN  [ret |-> ~(t - last < COOLDOWN), table |-> Put(LAST_ROAST_AT, chat_id, t)]

\* mutant of roast_allowed: the time of the roast is not recorded
roast_allowed_NoRecord(chat_id, t) ==
    LET last == Get(LAST_ROAST_AT, chat_id, 0)
    IN  IF t - last < COOLDOWN
        THEN [ret |-> FALSE, table |-> LAST_ROAST_AT]
        ELSE [ret |-> TRUE, table |-> LAST_ROAST_AT]

\* roast_allowed(chat_id) when the clock reads t: its return value and
\* LAST_ROAST_AT after it
roast_allowed(chat_id, t) ==
    LET last == Get(LAST_ROAST_AT, chat_id, 0)
    IN  IF t - last < COOLDOWN
        THEN [ret |-> FALSE, table |-> LAST_ROAST_AT]
        ELSE [ret |-> TRUE, table |-> Put(LAST_ROAST_AT, chat_id, t)]

\* mutant of DequeAppend: a full deque refuses the new entry
DequeAppend_KeepsOldest(d, e) ==
    IF Len(d) >= HISTORY_MAXLEN THEN d ELSE Append(d, e)

\* mutant of roast_decision: the cooldown is checked before the draw is
\* looked at
roast_decision_CooldownFirst(hit, chat_id, t) ==
    LET ra == roast_allowed(chat_id, t)
    IN  [checked |-> TRUE, allowed |-> ra.ret, ret |-> ra.ret /\ hit, table |-> ra.table]

\* roast_probability() and roast_allowed(chat_id), hit being the value of
\* roast_probability(): whether roast_allowed was called, what it returned,
\* the value of the conjunction and LAST_ROAST_AT after it
roast_decision(hit, chat_id, t) ==
    IF ~hit
    THEN [checked |-> FALSE, allowed |-> FALSE, ret |-> FALSE, table |-> LAST_ROAST_AT]
    ELSE LET ra == roast_allowed(chat_id, t)
         IN  [checked |-> TRUE, allowed |-> ra.ret, ret |-> ra.ret, table |-> ra.table]

\* deque(maxlen=3).append(e)
DequeAppend(d, e) ==
    IF Len(d) >= HISTORY_MAXLEN THEN Append(Tail(d), e) ELSE Append(d, e)

\* re.sub(rf"@{re.escape(bot_username)}", "", s, flags=re.IGNORECASE), p the
\* literal "@" + bot_username: leftmost non-overlapping matches are removed
\* (p starts with "@" and a username holds no "@", so no two matches overlap
\* and every match is removed)
ReSubRemove(s, p) ==
    LET ls         == Lower(s)
        lp         == Lower(p)
        MatchAt(m) == m >= 1 /\ m + Len(p) - 1 <= Len(s)
                            /\ SubSeq(ls, m, m + Len(p) - 1) = lp
        Kept(i)    == \A m \in (i - Len(p) + 1)..i : ~MatchAt(m)
        kept       == SelectSeq([i \in 1..Len(s) |-> i], Kept)
    IN  [k \in 1..Len(kept) |-> s[kept[k]]]

\* mutant of build_prompt: the context lines are those of the history as it
\* was before its newest entry
build_prompt_StaleContext(user_text, history, name) ==
    LET cleaned == Take(Strip(ReSubRemove(user_text, <<"@">> \o name)), PROMPT_MAXLEN)
        n       == Len(history) - 1
    IN  [context |-> SubSeq(history, IF n > 2 THEN n - 1 ELSE 1, n),
         cleaned |-> cleaned]

\* The prompt is a fixed template with two holes: the context block (one
\* "- entry" line for each of the last two entries of history) and the
\* cleaned user text.
build_prompt(user_text, history, name) ==
    LET cleaned == Take(Strip(ReSubRemove(user_text, <<"@">> \o name)), PROMPT_MAXLEN)
        n       == Len(history)
    IN  [context |-> SubSeq(history, IF n > 2 THEN n - 1 ELSE 1, n),
         cleaned |-> cleaned]

----------------------------------------------------------------------------
(* Actions *)

\* hf_generate returns s to on_text, which post-processes it and suspends in
\* reply_text
Returned(f, s) ==
    [f EXCEPT !.pc = "reply", !.result = <<s>>, !.reply = <<PostProcess(s)>>]

\* mutant of NextIteration: the exhausted loop returns the timeout fallback
NextIteration_WrongFallback(f) ==
    IF f.attempt + 1 < ATTEMPTS
    THEN [f EXCEPT !.pc = "post", !.attempt = f.attempt + 1]
    ELSE Returned([f EXCEPT !.attempt = f.attempt + 1], TimeoutFallback)

\* the for loop moves to its next iteration, or is exhausted and the
\* statement after it returns
NextIteration(f) ==
    IF f.attempt + 1 < ATTEMPTS
    THEN [f EXCEPT !.pc = "post", !.attempt = f.attempt + 1]
    ELSE Returned([f EXCEPT !.attempt = f.attempt + 1], BusyFallback)

\* What a step that receives update u in slot t leaves for inspection: the
\* update, whether on_text was invoked for it, the outcome of the random
\* draw if one was made (<<>> otherwise), and CHAT_HISTORY, LAST_ROAST_AT
\* and the frames as they were before the step.
Observed(t, u, inv, drew) ==
    <<[update |-> u, slot |-> t, invoked |-> inv, drew |-> drew,
       history |-> CHAT_HISTORY, roast_at |-> LAST_ROAST_AT, frames |-> task]>>

\* on_text from its entry to its first suspension point or to its return,
\* for update u, run by task t
on_text(t, u) ==
    IF ~u.message \/ u.text = <<>> \/ ~is_group(u)
    THEN /\ lastCheck' = <<>>
         /\ lastBegin' = Observed(t, u, TRUE, <<>>)
         /\ UNCHANGED <<task, CHAT_HISTORY, LAST_ROAST_AT, roastLog, handled>>
    ELSE LET chat_id   == u.chat_id
             user_name == roast_candidate_name(u)
             text      == normalize_text(u.text)
             entry     == user_name \o <<":"," ">> \o Take(text, ENTRY_MAXLEN)
             hist      == IF StartsWith(text, <<"/">>) THEN CHAT_HISTORY
                          ELSE Put(CHAT_HISTORY, chat_id,
                                   DequeAppend(Get(CHAT_HISTORY, chat_id, <<>>), entry))
         IN  /\ handled' = Put(handled, chat_id, Append(Get(handled, chat_id, <<>>), u))
             /\ IF should_answer_with_llm(u, bot_username)
                THEN /\ CHAT_HISTORY' = Put(hist, chat_id, Get(hist, chat_id, <<>>))
                     /\ task' = [task EXCEPT ![t] =
                            [@ EXCEPT !.pc = "post", !.update = <<u>>,
                                 !.prompt = <<build_prompt(text, Get(hist, chat_id, <<>>),
                                                           bot_username)>>]]
                     /\ lastCheck' = <<>>
                     /\ lastBegin' = Observed(t, u, TRUE, <<>>)
                     /\ UNCHANGED <<LAST_ROAST_AT, roastLog>>
                ELSE /\ CHAT_HISTORY' = hist
                     /\ \E hit \in {roast_probability(d) : d \in 1..DRAW_MAX} :
                          LET rd == roast_decision(hit, chat_id, now)
                          IN  /\ lastBegin' = Observed(t, u, TRUE, <<hit>>)
                              /\ LAST_ROAST_AT' = rd.table
                              /\ lastCheck' = IF rd.checked
                                              THEN <<[chat_id |-> chat_id, at |-> now,
                                                      before |-> LAST_ROAST_AT,
                                                      ret |-> rd.allowed]>>
                                              ELSE <<>>
                              /\ IF rd.ret
                                 THEN /\ roastLog' = Append(roastLog, <<chat_id, now>>)
                                      /\ \E k \in 1..Len(ROAST_LINES) :
                                           task' = [task EXCEPT ![t] =
                                             [@ EXCEPT !.pc = "reply", !.update = <<u>>,
                                                !.reply = <<user_name \o <<" ">>
                                                             \o ROAST_LINES[k]>>]]
                                 ELSE UNCHANGED <<task, roastLog>>

\* The application receives update u and, when the filter of the handler
\* registered in main lets it through, runs on_text for it in task t.
Receive(t, u) ==
    /\ delivered' = delivered + 1
    /\ IF Dispatched(u)
       THEN on_text(t, u)
       ELSE /\ lastCheck' = <<>>
            /\ lastBegin' = Observed(t, u, FALSE, <<>>)
            /\ UNCHANGED <<task, CHAT_HISTORY, LAST_ROAST_AT, roastLog, handled>>
    /\ UNCHANGED now

\* Update u arrives while task t is free.  Idle tasks are interchangeable:
\* the lowest takes the update.
Begin(t, u) ==
    /\ task[t].pc = "idle"
    /\ \A t2 \in Tasks : t2 < t => task[t2].pc # "idle"
    /\ delivered < MaxUpdates
    /\ Receive(t, u)

\* one iteration of the loop of hf_generate: the POST of task t ends as o
Attempt(t, o) ==
    /\ task[t].pc = "post"
    /\ LET f == [task[t] EXCEPT !.posts = Append(@, o)]
           r == Iteration(f.attempt, o)
       IN  task' = [task EXCEPT ![t] =
             CASE r.kind = "return" -> Returned(f, r.value)
               [] r.kind = "retry"  -> NextIteration(f)
               [] r.kind = "sleep"  -> [f EXCEPT !.pc = "sleep",
                                                 !.sleeps = Append(@, r.delay)]
               [] OTHER             -> [f EXCEPT !.pc = "crashed"]]
    /\ lastCheck' = <<>>
    /\ lastBegin' = <<>>
    /\ UNCHANGED <<now, CHAT_HISTORY, LAST_ROAST_AT, delivered, roastLog, handled>>

\* asyncio.sleep returns and the loop continues
Wake(t) ==
    /\ task[t].pc = "sleep"
    /\ task' = [task EXCEPT ![t] = NextIteration(@)]
    /\ lastCheck' = <<>>
    /\ lastBegin' = <<>>
    /\ UNCHANGED <<now, CHAT_HISTORY, LAST_ROAST_AT, delivered, roastLog, handled>>

\* update.message.reply_text(reply) delivers the reply; on_text returns
Send(t) ==
    /\ task[t].pc = "reply"
    /\ task' = [task EXCEPT ![t] = IdleFrame]
    /\ lastCheck' = <<>>
    /\ lastBegin' = <<>>
    /\ UNCHANGED <<now, CHAT_HISTORY, LAST_ROAST_AT, delivered, roastLog, handled>>

\* the monotonic clock advances
Tick(d) ==
    /\ now + d <= MaxElapsed
    /\ now' = now + d
    /\ lastCheck' = <<>>
    /\ lastBegin' = <<>>
    /\ UNCHANGED <<CHAT_HISTORY, LAST_ROAST_AT, task, delivered, roastLog, handled>>

Next ==
    \/ \E t \in Tasks, u \in Updates : Begin(t, u)
    \/ \E t \in Tasks, o \in SysOutcomes : Attempt(t, o)
    \/ \E t \in Tasks : Wake(t)
    \/ \E t \in Tasks : Send(t)
    \/ \E d \in TickSteps : Tick(d)

Spec == Init /\ [][Next]_vars

\* a single handler, addressed to the bot, against every endpoint outcome
GenNext ==
    \/ delivered = 0 /\ Begin(1, GenUpdate)
    \/ \E o \in GenOutcomes : Attempt(1, o)
    \/ Wake(1)
    \/ Send(1)

SpecGen == Init /\ [][GenNext]_vars

\* one busy group chat, whose messages outnumber the entries its context
\* keeps, with completion calls that succeed at once
HistBegin(t, u) ==
    /\ task[t].pc = "idle"
    /\ \A t2 \in Tasks : t2 < t => task[t2].pc # "idle"
    /\ delivered < MaxHistory
    /\ Receive(t, u)

HistNext ==
    \/ \E t \in Tasks, u \in HistUpdates : HistBegin(t, u)
    \/ \E t \in Tasks : Attempt(t, Response(200, "ok", <<"o","k">>))
    \/ \E t \in Tasks : Send(t)

SpecHist == Init /\ [][HistNext]_vars

\* a single handler whose message replies to the bot, for every text
PromptNext ==
    \/ delivered = 0 /\ \E u \in PromptUpdates : Begin(1, u)
    \/ Attempt(1, Response(200, "ok", <<"o","k">>))
    \/ Send(1)

SpecPrompt == Init /\ [][PromptNext]_vars

----------------------------------------------------------------------------
(* Vocabulary of the claims about hf_generate *)

\* the outcome of a POST, by the branch of the loop body it is meant to take
IsBusy(o)    == o.post = "response" /\ o.status \in {429, 503}
IsOk(o)      == o.post = "response" /\ o.status = 200 /\ o.read = "ok"
IsOther(o)   == o.post = "response" /\ o.status \notin {200, 429, 503}
\* asyncio.TimeoutError is raised during the attempt
IsTimeout(o) == o.post = "timeout" \/ (o.post = "response" /\ o.read = "timeout")
\* another Exception is raised during the attempt
IsFailure(o) == o.post = "error" \/ (o.post = "response" /\ o.read \in {"error", "malformed"})

\* the call of hf_generate of frame f has returned
HasReturned(f) == f.result # <<>>

\* r is s without its leading and trailing whitespace
IsTrimOf(r, s) ==
    /\ r # <<>> => r[1] \notin WS /\ r[Len(r)] \notin WS
    /\ \E i \in 0..Len(s) :
         /\ i + Len(r) <= Len(s)
         /\ SubSeq(s, i + 1, i + Len(r)) = r
         /\ \A j \in 1..Len(s) : (j <= i \/ j > i + Len(r)) => s[j] \in WS

\* the positions of posts that were answered 429 or 503, and the backoff
\* sleeps the claims expect for them: 1.2 s + 0.8 s * (0-based index)
BusyAt(f) == {k \in 1..Len(f.posts) : IsBusy(f.posts[k])}
ExpectedSleeps(f) ==
    LET B == BusyAt(f)
        nth(j) == CHOOSE k \in B : Cardinality({x \in B : x <= k}) = j
    IN  [j \in 1..Cardinality(B) |-> 1200 + 800 * (nth(j) - 1)]

\* right after the k-th POST of f was swallowed: the next POST is pending and
\* no sleep was made for the k-th
RetriedAtOnce(f, k) ==
    k = Len(f.posts) =>
        /\ f.pc = "post" /\ f.attempt = k /\ ~HasReturned(f)
        /\ Len(f.sleeps) = Cardinality({x \in BusyAt(f) : x < k})

----------------------------------------------------------------------------
(* Claims *)

\* The number of steps a call of hf_generate still has before it must have
\* returned: two (a POST and a sleep) for each attempt not yet made.
StepsLeft(f) ==
    CASE f.pc = "post"  -> 2 * (3 - Len(f.posts))
      [] f.pc = "sleep" -> 2 * (3 - Len(f.posts)) + 1
      [] OTHER          -> 0

\* C1: one call of hf_generate issues at most 3 POSTs, issues none after an
\* attempt that returned, never lets an exception escape the loop, and
\* always ends by returning a string: while the call is in progress a step
\* of it is pending, every step of it brings the return nearer, and what it
\* returns is a string.
C1_Safe ==
    \A t \in Tasks :
        LET f == task[t]
        IN  /\ Len(f.posts) <= 3
            /\ f.pc # "crashed"
            /\ Len(f.result) <= 1
            /\ f.pc \in {"post", "sleep"} => ~HasReturned(f) /\ Len(f.posts) < 3 + (IF f.pc = "sleep" THEN 1 ELSE 0)
            /\ (f.pc = "reply" /\ f.posts # <<>>) => Len(f.result) = 1
            /\ HasReturned(f) =>
                 /\ f.pc = "reply"
                 /\ \A k \in 1..(Len(f.posts) - 1) :
                        ~IsOk(f.posts[k])
                        /\ ~(IsOther(f.posts[k]) /\ f.posts[k].read = "ok")
C1_NoPostAfterReturn ==
    \A t \in Tasks :
        HasReturned(task[t]) => Len(task'[t].posts) <= Len(task[t].posts)
C1_Terminates ==
    \A t \in Tasks :
        /\ task[t].pc = "post" => StepsLeft(task[t]) > 0 /\ ENABLED Attempt(t, PostTimeout)
        /\ task[t].pc = "sleep" => ENABLED Wake(t)
        /\ (task[t].pc \in {"post", "sleep"} /\ task'[t] # task[t]) =>
               /\ StepsLeft(task'[t]) < StepsLeft(task[t])
               /\ task'[t].pc \in {"post", "sleep"} \/ HasReturned(task'[t])
C1_AlwaysReturnsString ==
    /\ []C1_Safe
    /\ [][C1_NoPostAfterReturn /\ C1_Terminates]_vars
C1_Witness ==
    \E t \in Tasks :
        /\ HasReturned(task[t])
        /\ Len(task[t].posts) = 3
        /\ IsFailure(task[t].posts[1])
        /\ IsBusy(task[t].posts[2])
        /\ IsTimeout(task[t].posts[3])

\* C2: a 429 or 503 on the attempt with 0-based index i is followed by a
\* sleep of exactly 1.2 + 0.8*i seconds and then by the continuation of the
\* loop (the call does not return at that attempt; while i < 2 the next POST
\* follows the sleep); for 503, 503, 200 the content is returned after three
\* POSTs and two sleeps, of 1.2 s and 2.0 s.
C2_BackoffSchedule ==
    \A t \in Tasks :
        LET f == task[t]
        IN  /\ f.sleeps = ExpectedSleeps(f)
            /\ \A k \in BusyAt(f) :
                 /\ f.sleeps[Cardinality({x \in BusyAt(f) : x <= k})] = 1200 + 800 * (k - 1)
                 /\ k = Len(f.posts) =>
                      \/ f.pc = "sleep" /\ f.attempt = k - 1 /\ ~HasReturned(f)
                      \/ f.pc = "post" /\ f.attempt = k /\ k < 3 /\ ~HasReturned(f)
                      \/ HasReturned(f) /\ k = 3
            /\ ( /\ Len(f.posts) = 3
                 /\ f.posts[1].status = 503 /\ f.posts[2].status = 503
                 /\ IsOk(f.posts[3]) )
                 => /\ HasReturned(f)
                    /\ IsTrimOf(f.result[1], f.posts[3].body)
                    /\ f.sleeps = <<1200, 2000>>
C2_Witness ==
    \E t \in Tasks :
        /\ Len(task[t].posts) = 3
        /\ task[t].posts[1].status = 503 /\ task[t].posts[2].status = 503
        /\ IsOk(task[t].posts[3]) /\ task[t].posts[3].body = <<" ","h","i","\n">>
        /\ task[t].result = << <<"h","i">> >>

\* C3: when every attempt times out, the "brain froze" fallback is returned
\* after exactly 3 POSTs; a timeout on the first or second attempt is
\* swallowed and the next attempt starts with no sleep; a timeout on the
\* third attempt returns the fallback.
C3_TimeoutFallback ==
    \A t \in Tasks :
        LET f == task[t]
        IN  /\ \A k \in 1..Len(f.posts) :
                 IsTimeout(f.posts[k]) =>
                    /\ k < 3 => RetriedAtOnce(f, k)
                    /\ k = 3 => /\ f.result = <<TimeoutFallback>>
                                /\ Len(f.sleeps) = Cardinality(BusyAt(f))
            /\ (HasReturned(f) /\ \A k \in 1..Len(f.posts) : IsTimeout(f.posts[k]))
                 => /\ f.result = <<TimeoutFallback>>
                    /\ Len(f.posts) = 3
                    /\ f.sleeps = <<>>
C3_Witness ==
    \E t \in Tasks :
        /\ task[t].result = <<TimeoutFallback>>
        /\ Len(task[t].posts) = 3
        /\ \A k \in 1..3 : task[t].posts[k] = PostTimeout

\* C4: an attempt answered 200 with a well-formed body returns the content
\* with surrounding whitespace trimmed; it is the last attempt and no sleep
\* is made for it; a 200 on the first attempt means one POST and no sleep.
C4_SuccessReturnsTrimmed ==
    \A t \in Tasks :
        LET f == task[t]
        IN  \A k \in 1..Len(f.posts) :
                IsOk(f.posts[k]) =>
                    /\ k = Len(f.posts)
                    /\ f.pc = "reply"
                    /\ HasReturned(f)
                    /\ IsTrimOf(f.result[1], f.posts[k].body)
                    /\ Len(f.sleeps) = Cardinality({x \in BusyAt(f) : x < k})
                    /\ k = 1 => f.sleeps = <<>>
C4_Witness ==
    \E t \in Tasks :
        /\ task[t].posts = <<Response(200, "ok", <<" ","h","i","\n">>)>>
        /\ task[t].result = << <<"h","i">> >>
        /\ task[t].sleeps = <<>>

\* the diagnostic string for a status and a body: the status in decimal and
\* the first min(3500, length) characters of the body
IsDiagnostic(r, status, body) ==
    \E n \in 0..3500 :
        /\ n <= Len(body)
        /\ n < 3500 => n = Len(body)
        /\ r = <<"(","L","L","M"," ","e","r","r","o","r"," ">> \o Str(status)
                 \o <<")"," ">> \o SubSeq(body, 1, n) \o <<"<ellipsis>">>

\* C5 as stated: an attempt that receives a status other than 200, 429 and
\* 503 returns the diagnostic string at once, with no further attempt and
\* no sleep.
C5_AnyOtherStatusReturns ==
    \A t \in Tasks :
        LET f == task[t]
        IN  \A k \in 1..Len(f.posts) :
                IsOther(f.posts[k]) =>
                    /\ k = Len(f.posts)
                    /\ HasReturned(f)
                    /\ \E b \in Bodies : IsDiagnostic(f.result[1], f.posts[k].status, b)

\* C5, amended: an attempt that receives a status other than 200, 429 and
\* 503 and whose response body is read without a failure returns at once
\* the diagnostic string with the status code and at most 3500 characters of
\* that body: it is the last attempt and no sleep is made for it.
C5_OtherStatusReturnsDiagnostic ==
    \A t \in Tasks :
        LET f == task[t]
        IN  \A k \in 1..Len(f.posts) :
                (IsOther(f.posts[k]) /\ f.posts[k].read = "ok") =>
                    /\ k = Len(f.posts)
                    /\ f.pc = "reply"
                    /\ HasReturned(f)
                    /\ IsDiagnostic(f.result[1], f.posts[k].status, f.posts[k].body)
                    /\ Len(f.sleeps) = Cardinality({x \in BusyAt(f) : x < k})
C5_Witness ==
    \E t \in Tasks :
        /\ Len(task[t].posts) = 2
        /\ task[t].posts[2] = Response(500, "ok", LongBody)
        /\ HasReturned(task[t])
        /\ Len(task[t].result[1]) = 16 + 3500 + 1

\* C6: when all 3 attempts are answered 429 or 503, the "busy" fallback,
\* which differs from the two other fallbacks, is returned after 3 POSTs and
\* 3 sleeps of 1.2 s, 2.0 s and 2.8 s.
C6_BusyFallback ==
    /\ BusyFallback # TimeoutFallback
    /\ BusyFallback # ErrorFallback
    /\ \A t \in Tasks :
        LET f == task[t]
        IN  (Len(f.posts) = 3 /\ \A k \in 1..3 : IsBusy(f.posts[k])) =>
               /\ f.sleeps = <<1200, 2000, 2800>>
               /\ f.pc \in {"sleep", "reply"}
               /\ f.pc = "reply" => f.result = <<BusyFallback>>
               /\ f.pc = "sleep" => ~HasReturned(f)
C6_Witness ==
    \E t \in Tasks :
        /\ Len(task[t].posts) = 3
        /\ \A k \in 1..3 : IsBusy(task[t].posts[k])
        /\ task[t].result = <<BusyFallback>>

\* C7: a failure of an attempt other than a timeout (a 200 whose body lacks
\* the choices/message/content structure included) is swallowed on the first
\* and second attempts, the next attempt starting with no sleep, and on the
\* third attempt the "something broke" fallback, which is not the timeout
\* fallback, is returned.
C7_FailureFallback ==
    /\ ErrorFallback # TimeoutFallback
    /\ \A t \in Tasks :
        LET f == task[t]
        IN  \A k \in 1..Len(f.posts) :
                IsFailure(f.posts[k]) =>
                    /\ k < 3 => RetriedAtOnce(f, k)
                    /\ k = 3 => /\ f.result = <<ErrorFallback>>
                                /\ Len(f.sleeps) = Cardinality(BusyAt(f))
C7_Witness ==
    \E t \in Tasks :
        /\ Len(task[t].posts) = 3
        /\ task[t].posts[1] = Response(200, "malformed", <<>>)
        /\ task[t].posts[2] = PostError
        /\ task[t].posts[3] = Response(200, "malformed", <<>>)
        /\ task[t].result = <<ErrorFallback>>
        /\ task[t].sleeps = <<>>

----------------------------------------------------------------------------
(* Claims about the cooldown *)

\* the time recorded for chat c in table d, as a sequence of length 0 or 1
Recorded(d, c) == IF c \in DOMAIN d THEN <<d[c]>> ELSE <<>>

\* C8: for a chat with a recorded last-roast time, roast_allowed returns
\* true exactly when at least 120 seconds have elapsed since that time; a
\* call that returns true records the current time for that chat and changes
\* nothing else, a call that returns false leaves the cooldown state as it
\* was.  So no call returns true less than 120 s after one that did, and a
\* call 120 s or more after it returns true again.
C8_CooldownCheck ==
    /\ lastCheck # <<>> =>
         LET c    == lastCheck[1]
             prev == Recorded(c.before, c.chat_id)
         IN  /\ prev # <<>> => (c.ret <=> c.at - prev[1] >= 120)
             /\ c.ret => /\ Recorded(LAST_ROAST_AT, c.chat_id) = <<c.at>>
                         /\ DOMAIN LAST_ROAST_AT = DOMAIN c.before \cup {c.chat_id}
                         /\ \A x \in DOMAIN c.before :
                                x # c.chat_id => LAST_ROAST_AT[x] = c.before[x]
             /\ ~c.ret => LAST_ROAST_AT = c.before
             /\ \A i \in 1..(Len(roastLog) - (IF c.ret THEN 1 ELSE 0)) :
                    (roastLog[i][1] = c.chat_id /\ c.at - roastLog[i][2] < 120) => ~c.ret
C8_Witness ==
    /\ lastCheck # <<>>
    /\ lastCheck[1].ret
    /\ Recorded(lastCheck[1].before, lastCheck[1].chat_id) = <<lastCheck[1].at - 120>>

\* C9: for a chat with no entry in the cooldown state, roast_allowed returns
\* true whatever the clock reads, and creates the entry.
C9_NoEntryAllowed ==
    (lastCheck # <<>> /\ lastCheck[1].chat_id \notin DOMAIN lastCheck[1].before) =>
        /\ lastCheck[1].ret
        /\ Recorded(LAST_ROAST_AT, lastCheck[1].chat_id) = <<lastCheck[1].at>>

\* C10: under every interleaving of handlers at their suspension points, no
\* two messages of one chat pass the cooldown check less than 120 seconds
\* apart, and the time recorded for a chat is the time of the latest check
\* it passed.
C10_OneRoastPerWindow ==
    /\ \A i, j \in 1..Len(roastLog) :
         (i < j /\ roastLog[i][1] = roastLog[j][1]) =>
            roastLog[j][2] - roastLog[i][2] >= 120
    /\ \A c \in DOMAIN LAST_ROAST_AT :
         \E j \in 1..Len(roastLog) :
            /\ roastLog[j] = <<c, LAST_ROAST_AT[c]>>
            /\ \A i \in (j + 1)..Len(roastLog) : roastLog[i][1] # c
C10_Witness ==
    /\ Len(roastLog) >= 2
    /\ roastLog[1][1] = roastLog[2][1]
    /\ \E t \in Tasks : task[t].pc \in {"post", "sleep"}
    /\ \E t \in Tasks : task[t].pc = "reply" /\ task[t].posts = <<>>

----------------------------------------------------------------------------
(* Vocabulary of the claims about on_text *)

\* a message whose normalized text has no leading "/"
NonCommand(u) == ~StartsWith(normalize_text(u.text), <<"/">>)

\* the context entry of a message: "name: text", the text cut to 120 characters
EntryOf(u) ==
    roast_candidate_name(u) \o <<":"," ">> \o Take(normalize_text(u.text), ENTRY_MAXLEN)

\* the non-command group messages handled so far for chat c, in handling order
Recordable(c) == SelectSeq(Get(handled, c, <<>>), NonCommand)

\* the last n elements of s, or all of s when it has fewer
LastN(s, n) == SubSeq(s, IF Len(s) > n THEN Len(s) - n + 1 ELSE 1, Len(s))

----------------------------------------------------------------------------
(* C11 *)

\* C11: in every reachable state, under any interleaving of handlers, the
\* context of every chat holds at most 3 entries, and they are the entries
\* of the last min(3, k) of the k non-command group messages handled so far
\* for that chat, in the order they were handled.
C11_ContextIsRecentWindow ==
    \A c \in DOMAIN CHAT_HISTORY \cup DOMAIN handled :
        LET ctx  == Get(CHAT_HISTORY, c, <<>>)
            last == LastN(Recordable(c), 3)
        IN  /\ Len(ctx) <= 3
            /\ Len(ctx) = Len(last)
            /\ \A i \in 1..Len(ctx) : ctx[i] = EntryOf(last[i])

\* a fourth message has pushed the oldest entry out while a completion call
\* of the chat is still in flight
C11_Witness ==
    \E c \in DOMAIN CHAT_HISTORY :
        /\ Len(Recordable(c)) >= 4
        /\ CHAT_HISTORY[c][1] # EntryOf(Recordable(c)[1])
        /\ \E t \in Tasks : task[t].pc = "post" /\ task[t].update[1].chat_id = c

----------------------------------------------------------------------------
(* C12 *)

\* the message of update u comes from a chat that is neither a group nor a
\* supergroup
NonGroup(u) == u.message /\ u.chat_type \notin {"group", "supergroup"}

\* C12: a message from a non-group chat never triggers a reply: the step
\* that handles it appends to no chat's context, changes no chat's last-roast
\* time, draws no random number and starts no completion call (every frame is
\* as it was), and no task ever works on such a message.
C12_NonGroupIgnored ==
    /\ \A t \in Tasks : task[t].update # <<>> => ~NonGroup(task[t].update[1])
    /\ lastBegin # <<>> /\ NonGroup(lastBegin[1].update)
         => /\ CHAT_HISTORY = lastBegin[1].history
            /\ LAST_ROAST_AT = lastBegin[1].roast_at
            /\ task = lastBegin[1].frames
            /\ lastBegin[1].drew = <<>>

\* on_text has just handled a private message that mentions the bot and
\* replies to it, while a group's completion call is in flight
C12_Witness ==
    /\ lastBegin # <<>>
    /\ lastBegin[1].invoked
    /\ NonGroup(lastBegin[1].update)
    /\ should_answer_with_llm(lastBegin[1].update, bot_username)
    /\ \E t \in Tasks : task[t].pc = "post"

----------------------------------------------------------------------------
(* C13 *)

\* the text of u contains "@" + the bot's username, in any case
Mentions(u) == Contains(Lower(u.text), Lower(<<"@">> \o bot_username))

\* u is a reply to a message sent by the bot
RepliesToBot(u) == u.reply_to = bot_username

\* u is a group message with a text
GroupText(u) == u.message /\ u.chat_type \in {"group", "supergroup"} /\ u.text # <<>>

DirectAddress(u) == GroupText(u) /\ (Mentions(u) \/ RepliesToBot(u))

\* the latest step has started the completion call of its update: its task
\* is suspended in the first POST of one call of hf_generate, no roast was
\* decided, no number drawn, no last-roast time changed
TookLLMPath ==
    LET b == lastBegin[1]
        f == task[b.slot]
    IN  /\ f.pc = "post" /\ f.attempt = 0 /\ f.posts = <<>>
        /\ f.update = <<b.update>>
        /\ f.prompt # <<>>
        /\ \A t \in Tasks \ {b.slot} : task[t] = b.frames[t]
        /\ b.drew = <<>>
        /\ lastCheck = <<>>
        /\ LAST_ROAST_AT = b.roast_at

\* C13: a group message that mentions the bot ("@handle", in any case) or
\* replies to a message of the bot always takes the LLM path: one completion
\* call is started for it, no roast is emitted, no random number is drawn and
\* the cooldown state of the chat is unchanged.
C13_DirectAddressTakesLLMPath ==
    lastBegin # <<>> /\ DirectAddress(lastBegin[1].update) => TookLLMPath

----------------------------------------------------------------------------
(* C14 *)

Ambient(u) == GroupText(u) /\ ~Mentions(u) /\ ~RepliesToBot(u)

\* the latest step has put a roast in its task's reply_text
RoastEmitted ==
    LET b == lastBegin[1]
    IN  task[b.slot].pc = "reply" /\ task[b.slot].posts = <<>>

\* the latest step has left every frame as it was
NoReplyStarted == task = lastBegin[1].frames

\* C14: for an ambient group message a roast is emitted only when the draw
\* and then the cooldown check both succeed.  When the draw fails the
\* cooldown check is not evaluated and the cooldown state is unchanged; when
\* the draw succeeds the check is evaluated, and if it fails no roast is
\* emitted and the cooldown state is unchanged.
C14_DrawThenCooldown ==
    lastBegin # <<>> /\ Ambient(lastBegin[1].update) =>
        LET b == lastBegin[1]
        IN  /\ RoastEmitted =>
                b.drew = <<TRUE>> /\ lastCheck # <<>> /\ lastCheck[1].ret
            /\ ~RoastEmitted => NoReplyStarted
            /\ b.drew = <<FALSE>> =>
                lastCheck = <<>> /\ LAST_ROAST_AT = b.roast_at /\ ~RoastEmitted
            /\ b.drew = <<TRUE>> =>
                /\ lastCheck # <<>>
                /\ lastCheck[1].ret => RoastEmitted
                /\ ~lastCheck[1].ret => ~RoastEmitted /\ LAST_ROAST_AT = b.roast_at

\* the draw of an ambient message has failed at a time at which the
\* cooldown of its chat has run out
C14_Witness ==
    /\ lastBegin # <<>>
    /\ Ambient(lastBegin[1].update)
    /\ lastBegin[1].drew = <<FALSE>>
    /\ lastBegin[1].update.chat_id \in DOMAIN LAST_ROAST_AT
    /\ now - LAST_ROAST_AT[lastBegin[1].update.chat_id] >= COOLDOWN

----------------------------------------------------------------------------
(* C15 *)

\* C15: the last-roast time of a chat never decreases and never disappears,
\* and LAST_ROAST_AT changes only in a step whose roast decision succeeds: the
\* step of an ambient message whose draw and cooldown check both succeeded,
\* which changes the time of that message's chat only.
C15_RoastTimeMonotonic ==
    [][ /\ \A c \in DOMAIN LAST_ROAST_AT :
             c \in DOMAIN LAST_ROAST_AT' /\ LAST_ROAST_AT'[c] >= LAST_ROAST_AT[c]
        /\ LAST_ROAST_AT' # LAST_ROAST_AT =>
             /\ lastBegin' # <<>>
             /\ lastBegin'[1].drew = <<TRUE>>
             /\ lastCheck' # <<>> /\ lastCheck'[1].ret
             /\ task'[lastBegin'[1].slot].pc = "reply"
             /\ \A c \in DOMAIN LAST_ROAST_AT' :
                  c # lastBegin'[1].update.chat_id =>
                      c \in DOMAIN LAST_ROAST_AT /\ LAST_ROAST_AT'[c] = LAST_ROAST_AT[c]
      ]_vars

\* a chat's last-roast time has just moved forward from an earlier roast
C15_Witness ==
    /\ lastBegin # <<>>
    /\ lastBegin[1].update.chat_id \in DOMAIN lastBegin[1].roast_at
    /\ LAST_ROAST_AT[lastBegin[1].update.chat_id]
         > lastBegin[1].roast_at[lastBegin[1].update.chat_id]

----------------------------------------------------------------------------
(* C16 *)

\* every character of s is whitespace (so is the empty string)
IsBlank(s) == \A i \in 1..Len(s) : s[i] \in WS

\* s cut to its first REPLY_MAXLEN characters and then to the text before
\* the last space of that prefix is the first n characters of s
CutsAt(s, n) ==
    \/ n = REPLY_MAXLEN /\ \A j \in 1..REPLY_MAXLEN : s[j] # " "
    \/ /\ n < REPLY_MAXLEN
       /\ s[n + 1] = " "
       /\ \A j \in (n + 2)..REPLY_MAXLEN : s[j] # " "

\* C16: for every string the completion client returns (model content,
\* diagnostic string or fallback), the reply on_text sends is neither empty
\* nor whitespace-only nor longer than 3501 characters; an empty result is
\* replaced by the clarifying prompt; a result of more than 3500 characters
\* is cut to its first 3500 characters, then to the text before the last
\* space of that prefix, and one ellipsis character is appended.
C16_ReplyShape ==
    \A t \in Tasks :
        task[t].pc = "reply" /\ task[t].result # <<>> =>
            LET r   == task[t].result[1]
                out == task[t].reply[1]
                n   == Len(out) - 1
            IN  /\ ~IsBlank(out)
                /\ Len(out) <= REPLY_MAXLEN + 1
                /\ IsBlank(r) => out = ClarifyingPrompt
                /\ Len(r) > REPLY_MAXLEN =>
                     /\ n \in 0..REPLY_MAXLEN
                     /\ out = Take(r, n) \o <<"<ellipsis>">>
                     /\ CutsAt(r, n)

\* a result longer than 3500 characters, with spaces, has been cut and is
\* about to be sent
C16_Witness ==
    /\ task[1].pc = "reply"
    /\ task[1].result # <<>>
    /\ Len(task[1].result[1]) > REPLY_MAXLEN
    /\ Len(task[1].reply[1]) <= REPLY_MAXLEN
    /\ task[1].posts[Len(task[1].posts)].status = 200

----------------------------------------------------------------------------
(* C17 *)

\* C17: for every text and non-empty handle, the cleaned user text that
\* build_prompt embeds in the prompt has at most 800 characters and contains
\* no occurrence, in any case, of "@" + handle.
C17_CleanedHasNoMention ==
    \A t \in Tasks :
        task[t].prompt # <<>> =>
            /\ Len(task[t].prompt[1].cleaned) <= PROMPT_MAXLEN
            /\ ~Contains(Lower(task[t].prompt[1].cleaned),
                         Lower(<<"@">> \o bot_username))

----------------------------------------------------------------------------
(* C18 *)

\* C18: a group message whose text starts with "/" leaves the context
\* entries of its chat unchanged and is still evaluated for direct address: if
\* it mentions the bot or replies to the bot it takes the LLM path, otherwise
\* it is a candidate for the roast (the random draw is made for it).
C18_CommandStillEvaluated ==
    lastBegin # <<>> /\ GroupText(lastBegin[1].update)
                     /\ StartsWith(lastBegin[1].update.text, <<"/">>) =>
        LET b == lastBegin[1]
            c == b.update.chat_id
        IN  /\ Get(CHAT_HISTORY, c, <<>>) = Get(b.history, c, <<>>)
            /\ Mentions(b.update) \/ RepliesToBot(b.update) => TookLLMPath
            /\ ~(Mentions(b.update) \/ RepliesToBot(b.update)) => b.drew # <<>>

----------------------------------------------------------------------------
(* C19 *)

\* C19: when hf_generate has made its 3 attempts without a response to
\* return, what it returns is decided by the third attempt alone, whatever
\* the first two were: the froze fallback after a timeout, the broke fallback
\* after another failure, the busy fallback after a 429 or 503.  A backoff
\* sleep follows every 429 or 503, the third attempt's included: timeout,
\* timeout, 503 returns the busy fallback after one sleep of 2.8 s, and 429,
\* 503, timeout returns the froze fallback after sleeps of 1.2 s and 2.0 s.
C19_ThirdAttemptDecides ==
    \A t \in Tasks :
        LET f == task[t]
        IN  Len(f.posts) = 3 =>
              LET o == f.posts[3]
              IN  /\ IsBusy(o) =>
                       /\ f.sleeps # <<>> /\ f.sleeps[Len(f.sleeps)] = 2800
                       /\ f.pc = "sleep" \/ f.result = <<BusyFallback>>
                  /\ IsTimeout(o) => f.result = <<TimeoutFallback>>
                  /\ IsFailure(o) => f.result = <<ErrorFallback>>
                  /\ Len(f.sleeps) = Cardinality(BusyAt(f))
                  /\ (IsTimeout(f.posts[1]) /\ IsTimeout(f.posts[2]) /\ IsBusy(o))
                       => f.sleeps = <<2800>>
                  /\ (IsBusy(f.posts[1]) /\ IsBusy(f.posts[2]) /\ IsTimeout(o))
                       => f.sleeps = <<1200, 2000>>

\* timeout, timeout, 503 has returned the busy fallback
C19_Witness ==
    /\ Len(task[1].posts) = 3
    /\ task[1].posts[1] = PostTimeout
    /\ task[1].posts[2] = PostTimeout
    /\ task[1].posts[3].status = 503
    /\ task[1].result = <<BusyFallback>>
    /\ task[1].sleeps = <<2800>>

----------------------------------------------------------------------------
(* C20 *)

\* the context lines of the prompt of frame f
ContextOf(f) == f.prompt[1].context

\* C20: for a direct-address non-command group message the entry of the
\* message is appended before the prompt is built: the context lines of the
\* prompt are the entry that was the chat's newest before the message, if
\* any, followed by the message's own entry.  The prompt is fixed before the
\* completion call suspends: it stays as it is until the task is done,
\* whatever other handlers append in the meantime.
C20_BuiltFromOwnEntry ==
    /\ \A t \in Tasks :
          task[t].prompt # <<>> /\ NonCommand(task[t].update[1]) =>
             /\ Len(ContextOf(task[t])) \in {1, 2}
             /\ ContextOf(task[t])[Len(ContextOf(task[t]))] = EntryOf(task[t].update[1])
    /\ lastBegin # <<>> /\ lastBegin[1].invoked /\ DirectAddress(lastBegin[1].update)
                        /\ NonCommand(lastBegin[1].update) =>
          LET b      == lastBegin[1]
              before == Get(b.history, b.update.chat_id, <<>>)
          IN  /\ task[b.slot].prompt # <<>>
              /\ ContextOf(task[b.slot]) =
                   LastN(before, 1) \o <<EntryOf(b.update)>>
              /\ ContextOf(task[b.slot]) = LastN(CHAT_HISTORY[b.update.chat_id], 2)
C20_PromptFixed ==
    \A t \in Tasks :
        task[t].prompt # <<>> /\ task'[t].pc # "idle" => task'[t].prompt = task[t].prompt
C20_PromptOfTriggeringMessage == []C20_BuiltFromOwnEntry /\ [][C20_PromptFixed]_vars

\* while a completion call is in flight another handler has appended to the
\* chat's context: the two-line context of the prompt is no longer the end of
\* the chat's context
C20_Witness ==
    \E t \in Tasks :
        /\ task[t].pc = "post"
        /\ NonCommand(task[t].update[1])
        /\ Len(ContextOf(task[t])) = 2
        /\ ContextOf(task[t]) # LastN(CHAT_HISTORY[task[t].update[1].chat_id], 2)

====
